---- MODULE Spec2Model ----
(***************************************************************************)
(* copy_user_fields.py: copy the user defined fields of a CloudV1          *)
(* organization, and the mappings of those fields, to a CloudV2            *)
(* organization.                                                           *)
(*                                                                         *)
(* Strings are sequences of one-character strings, so that str.lower() is  *)
(* computed character by character.  A Python dict is the sequence of its  *)
(* <<key, value>> items in insertion order.                                *)
(***************************************************************************)
EXTENDS Integers, Sequences, FiniteSets, TLC

VARIABLES
    v1_org_fields,         \* CloudV1: what v1_client.fields_get() returns
    v1_org_sources,        \* CloudV1: the 'sources' list of v1_client.sources_get()
    v2_org_fields,         \* CloudV2: the 'items' of v2_client.fields_get()
    v2_org_sources,        \* CloudV2: what v2_client.sources_get() returns
    v2_org_mappings,       \* CloudV2: source id -> the common rules of the source
    pc,                    \* position of the script
    run,                   \* "first" or "second" execution of the script
    calls,                 \* the remote calls issued by the current run, in order
    copied,                \* copy_user_fields returned normally in the first run
    v1_user_fields,        \* line 135
    v1_user_fields_unique, \* line 136
    v2_fields_to_create,   \* line 56
    v1_fields_mapping,     \* line 140
    v1_sources,            \* argument of v2_create_mapping_from_v1_fields
    v2_sources,            \* argument of v2_create_mapping_from_v1_fields
    common_sources,        \* line 102
    mappings_by_source_id, \* line 107
    mi,                    \* line 73: position in the iteration over the sources
    v1_sources_by_id,      \* line 108
    idx                    \* line 109: position in the iteration over v1_fields

vars == <<v1_org_fields, v1_org_sources, v2_org_fields, v2_org_sources,
          v2_org_mappings, pc, run, calls, copied, v1_user_fields,
          v1_user_fields_unique, v2_fields_to_create, v1_fields_mapping,
          v1_sources, v2_sources, common_sources, mappings_by_source_id, mi,
          v1_sources_by_id, idx>>

remote == <<v1_org_fields, v1_org_sources, v2_org_fields, v2_org_sources,
            v2_org_mappings>>

locals == <<v1_user_fields, v1_user_fields_unique, v2_fields_to_create,
            v1_fields_mapping, v1_sources, v2_sources, common_sources,
            mappings_by_source_id, mi, v1_sources_by_id, idx>>

----------------------------------------------------------------------------
(* Bounds *)

\* longest field list returned by the CloudV1 organization
MaxFields == 3

----------------------------------------------------------------------------
(* Strings *)

\* str.lower() on one character
LowerChar(c) ==
    CASE c = "R" -> "r"
      [] c = "W" -> "w"
      [] c = "L" -> "l"
      [] c = "S" -> "s"
      [] OTHER -> c

\* str.lower()
Lower(s) == [i \in DOMAIN s |-> LowerChar(s[i])]

\* Python's None
None == <<"None">>

----------------------------------------------------------------------------
(* dict *)

DictKeys(d) == {d[i][1] : i \in DOMAIN d}

\* d[k]
DictGet(d, k) == d[CHOOSE i \in DOMAIN d : d[i][1] = k][2]

\* d[k] = v: a present key keeps its position and takes the new value
DictSet(d, k, v) ==
    IF k \in DictKeys(d)
    THEN [i \in DOMAIN d |-> IF d[i][1] = k THEN <<k, v>> ELSE d[i]]
    ELSE Append(d, <<k, v>>)

\* dict(pairs)
RECURSIVE DictOf(_)
DictOf(pairs) ==
    IF pairs = <<>>
    THEN <<>>
    ELSE LET n == Len(pairs)
         IN DictSet(DictOf(SubSeq(pairs, 1, n - 1)), pairs[n][1], pairs[n][2])

\* itertools.chain.from_iterable
RECURSIVE Chain(_)
Chain(lists) ==
    IF lists = <<>> THEN <<>> ELSE Head(lists) \o Chain(Tail(lists))

----------------------------------------------------------------------------
(* v1_get_unique_fields *)

\* lines 14-19
get_fields_by_name(fields) ==
    LET v1_fields_by_name == [i \in DOMAIN fields |-> <<fields[i].name, fields[i]>>]
    IN DictOf([i \in DOMAIN v1_fields_by_name |->
                 <<v1_fields_by_name[i][1],
                   [j \in DOMAIN SelectSeq(v1_fields_by_name,
                                           LAMBDA f : f[1] = v1_fields_by_name[i][1]) |->
                      SelectSeq(v1_fields_by_name,
                                LAMBDA f : f[1] = v1_fields_by_name[i][1])[j][2]]>>])

\* the eight attributes without fieldType (a comparison that forgets line 25)
same_config_no_fieldType(previous, current) ==
    /\ previous.contentType = current.contentType
    /\ previous.fieldQueries = current.fieldQueries
    /\ previous.freeTextQueries = current.freeTextQueries
    /\ previous.facet = current.facet
    /\ previous.multivalueFacet = current.multivalueFacet
    /\ previous.sort = current.sort
    /\ previous.displayField = current.displayField

\* lines 25-32
same_config(previous, current) ==
    /\ previous.fieldType = current.fieldType
    /\ previous.contentType = current.contentType
    /\ previous.fieldQueries = current.fieldQueries
    /\ previous.freeTextQueries = current.freeTextQueries
    /\ previous.facet = current.facet
    /\ previous.multivalueFacet = current.multivalueFacet
    /\ previous.sort = current.sort
    /\ previous.displayField = current.displayField

\* lines 23-37: the loop, entered at index i with the given previous field
RECURSIVE validate_loop(_, _, _)
validate_loop(fields, previous, i) ==
    IF i > Len(fields)
    THEN TRUE
    ELSE IF ~same_config(previous, fields[i])
         THEN FALSE
         ELSE validate_loop(fields, fields[i], i + 1)

\* a validation that compares the first two members only
validate_first_pair(fields) ==
    Len(fields) < 2 \/ same_config(fields[1], fields[2])

\* lines 21-37
validate_same_config(fields) == validate_loop(fields, fields[1], 2)

\* lines 13-46: the list of (name, members) of the groups that validate
v1_get_unique_fields(fields) ==
    LET fields_by_name == get_fields_by_name(fields)
    IN SelectSeq(fields_by_name, LAMBDA t : validate_same_config(t[2]))

\* line 49-50
v1_field_is_user(field) == field.fieldOrigin = "CUSTOM"

----------------------------------------------------------------------------
(* copy_user_fields *)

\* client.fields.Fields.v1_to_v2: the CloudV2 definition of a CloudV1 field.
\* The name is kept; the CloudV1 fieldType becomes the CloudV2 type.
v1_to_v2(field) ==
    [name |-> field.name,
     type |-> IF field.fieldType = "LONG" THEN "LONG_64" ELSE "STRING"]

\* line 54
v2_unique_fields_of(v1_fields) ==
    [i \in DOMAIN v1_fields |-> v1_to_v2(v1_fields[i][2][1])]

\* line 55 with the names lower-cased
v2_field_names_lower(items) == [i \in DOMAIN items |-> Lower(items[i].name)]

\* line 55
v2_field_names(items) == [i \in DOMAIN items |-> items[i].name]

SeqRange(s) == {s[i] : i \in DOMAIN s}

\* line 58 with the names compared without their case
already_exists_nocase(field, v2_fields) ==
    Lower(field.name) \in {Lower(n) : n \in SeqRange(v2_fields)}

\* line 58: field['name'] in v2_fields
already_exists(field, v2_fields) == field.name \in SeqRange(v2_fields)

\* lines 56-61
fields_to_create(v2_unique_fields, v2_fields) ==
    SelectSeq(v2_unique_fields, LAMBDA field : ~already_exists(field, v2_fields))

----------------------------------------------------------------------------
(* v2_create_mapping_from_v1_fields *)

\* lines 70-72: the rules of one source by lower-cased field name
rules_by_field_name(rules) ==
    DictOf([i \in DOMAIN rules |-> <<Lower(rules[i].field), rules[i]>>])

\* lines 75-82
v2_get_sources_by_name(v1s, v2s) ==
    LET v1_sources_by_name == DictOf([i \in DOMAIN v1s |-> <<Lower(v1s[i].name), v1s[i]>>])
        v2_sources_by_name == DictOf([i \in DOMAIN v2s |-> <<Lower(v2s[i].name), v2s[i]>>])
        common == SelectSeq(v2_sources_by_name,
                            LAMBDA t : t[1] \in DictKeys(v1_sources_by_name))
    IN DictOf([i \in DOMAIN common |->
                 <<common[i][1],
                   [v1_id |-> DictGet(v1_sources_by_name, common[i][1]).id,
                    v2_id |-> DictGet(v2_sources_by_name, common[i][1]).id]>>])

\* line 108
sources_by_id(v1s) == DictOf([i \in DOMAIN v1s |-> <<Lower(v1s[i].id), v1s[i]>>])

\* line 87 raises KeyError
source_id_missing(field) == field.sourceId \notin DictKeys(v1_sources_by_id)

\* lines 84-91, when line 87 finds the source
v2_get_source_used_field(field, sources) ==
    LET v1_source_id == field.sourceId
        v1_source_name == DictGet(v1_sources_by_id, v1_source_id).name
    IN [id |-> IF Lower(v1_source_name) \in DictKeys(sources)
               THEN DictGet(sources, Lower(v1_source_name)).v2_id
               ELSE None,
        name |-> v1_source_name]

\* line 94
new_mapping(field) ==
    [content |-> << <<"%", "[">> \o field.metadataName \o <<"]">> >>,
     field |-> field.name]

\* line 95 on an index that the creates of the run have refreshed
new_mapping_exists_refreshed(field, mappings, source_id) ==
    \/ Lower(new_mapping(field).field) \in DictKeys(mappings)
    \/ \E i \in DOMAIN calls :
          /\ calls[i].op = "mappings_common_add"
          /\ calls[i].arg[1] = source_id
          /\ Lower(calls[i].arg[3].field) = Lower(new_mapping(field).field)

\* line 95 without lower()
new_mapping_exists_case(field, mappings, source_id) ==
    new_mapping(field).field \in DictKeys(mappings)

\* line 95; the mappings are those of source_id
new_mapping_exists(field, mappings, source_id) ==
    Lower(new_mapping(field).field) \in DictKeys(mappings)

----------------------------------------------------------------------------
(* The two organizations *)

FieldNames == {<<"R">>, <<"r">>}

CfgBase ==
    [fieldType |-> "STRING", contentType |-> "TEXT", fieldQueries |-> FALSE,
     freeTextQueries |-> FALSE, facet |-> FALSE, multivalueFacet |-> FALSE,
     sort |-> FALSE, displayField |-> FALSE]

\* the base configuration and the eight that differ from it in one attribute
Configs ==
    {CfgBase,
     [CfgBase EXCEPT !.fieldType = "LONG"],
     [CfgBase EXCEPT !.contentType = "HTML"],
     [CfgBase EXCEPT !.fieldQueries = TRUE],
     [CfgBase EXCEPT !.freeTextQueries = TRUE],
     [CfgBase EXCEPT !.facet = TRUE],
     [CfgBase EXCEPT !.multivalueFacet = TRUE],
     [CfgBase EXCEPT !.sort = TRUE],
     [CfgBase EXCEPT !.displayField = TRUE]}

\* the configurations of the fields of a whole run
RunConfigs == {CfgBase, [CfgBase EXCEPT !.fieldType = "LONG"]}

Field(name, cfg, origin, sourceId) ==
    [name |-> name, fieldType |-> cfg.fieldType, contentType |-> cfg.contentType,
     fieldQueries |-> cfg.fieldQueries, freeTextQueries |-> cfg.freeTextQueries,
     facet |-> cfg.facet, multivalueFacet |-> cfg.multivalueFacet,
     sort |-> cfg.sort, displayField |-> cfg.displayField,
     fieldOrigin |-> origin, sourceId |-> sourceId, metadataName |-> <<"m">>]

FieldsOf(names, cfgs, origins, sourceIds) ==
    {Field(n, c, o, s) : n \in names, c \in cfgs, o \in origins, s \in sourceIds}

\* the lists of at most n elements of S
ListsUpTo(S, n) == UNION {[1..k -> S] : k \in 0..n}

\* CloudV1 sources: an upper-case id, and two names that differ by case only
V1Sources ==
    {[id |-> <<"s">>, name |-> <<"W">>],
     [id |-> <<"S">>, name |-> <<"L">>],
     [id |-> <<"t">>, name |-> <<"l">>]}

V2Sources ==
    {[id |-> <<"x">>, name |-> <<"w">>],
     [id |-> <<"y">>, name |-> <<"l">>]}

\* the lists of one or two sources of S, each source at most once
SourceLists(S) ==
    {<<a>> : a \in S} \cup {p \in S \X S : p[1] # p[2]}

\* the rules a CloudV2 source starts with
InitialRules == {<<>>, <<[content |-> << <<"%", "[", "m", "]">> >>, field |-> <<"r">>]>>}

\* the fields the CloudV2 organization starts with
InitialV2Fields == {<<>>, <<[name |-> <<"r">>, type |-> "STRING"]>>}

NoLocals ==
    /\ v1_user_fields = <<>>
    /\ v1_user_fields_unique = <<>>
    /\ v2_fields_to_create = <<>>
    /\ v1_fields_mapping = <<>>
    /\ v1_sources = <<>>
    /\ v2_sources = <<>>
    /\ common_sources = <<>>
    /\ mappings_by_source_id = <<>>
    /\ mi = 0
    /\ v1_sources_by_id = <<>>
    /\ idx = 0

\* one source on each side, the same by name; fields of every shape, in a
\* CloudV2 organization that has fields or has none
InitFields ==
    /\ v1_org_sources = <<[id |-> <<"s">>, name |-> <<"W">>]>>
    /\ v2_org_sources = <<[id |-> <<"x">>, name |-> <<"w">>]>>
    /\ v1_org_fields \in
          ListsUpTo(FieldsOf(FieldNames, RunConfigs, {"CUSTOM", "SYSTEM"}, {<<"s">>}),
                    MaxFields)
    /\ v2_org_fields \in InitialV2Fields

\* sources of every shape; user fields of one configuration, in a CloudV2
\* organization without fields
InitSources ==
    /\ v1_org_sources \in SourceLists(V1Sources)
    /\ v2_org_sources \in {<<>>} \cup SourceLists(V2Sources)
    /\ v1_org_fields \in
          ListsUpTo(FieldsOf(FieldNames, {CfgBase}, {"CUSTOM"},
                             {v1_org_sources[i].id : i \in DOMAIN v1_org_sources}),
                    MaxFields)
    /\ v2_org_fields = <<>>

Init ==
    /\ InitFields \/ InitSources
    /\ \E rules \in InitialRules :
          v2_org_mappings = [id \in {v2_org_sources[i].id : i \in DOMAIN v2_org_sources}
                               |-> rules]
    /\ pc = "main"
    /\ run = "first"
    /\ calls = <<>>
    /\ copied = FALSE
    /\ NoLocals

----------------------------------------------------------------------------
(* The script, one action for each remote call and the code up to the next *)

\* a remote call: its arguments, whether it returned, and what it returned
Call(op, arg, ok, ret) == [op |-> op, arg |-> arg, ok |-> ok, ret |-> ret]

\* a remote call raises: nothing catches it, the script ends
RemoteFailure(op, arg) ==
    /\ calls' = Append(calls, Call(op, arg, FALSE, <<>>))
    /\ pc' = "failed"
    /\ UNCHANGED <<remote, run, copied, locals>>

\* lines 135-136
MainFieldsGet ==
    /\ pc = "main"
    /\ \/ /\ calls' = Append(calls, Call("v1.fields_get", <<>>, TRUE, v1_org_fields))
          /\ v1_user_fields' = SelectSeq(v1_org_fields, v1_field_is_user)
          /\ v1_user_fields_unique' = v1_get_unique_fields(v1_user_fields')
          /\ pc' = "copy_user_fields"
          /\ UNCHANGED <<remote, run, copied, v2_fields_to_create, v1_fields_mapping,
                         v1_sources, v2_sources, common_sources,
                         mappings_by_source_id, mi, v1_sources_by_id, idx>>
       \/ RemoteFailure("v1.fields_get", <<>>)

\* lines 54-63: up to the test of line 63
CopyFieldsGet ==
    /\ pc = "copy_user_fields"
    /\ \/ /\ calls' = Append(calls, Call("fields_get", <<>>, TRUE, v2_org_fields))
          /\ LET v2_unique_fields == v2_unique_fields_of(v1_user_fields_unique)
                 v2_fields == v2_field_names(v2_org_fields)
             IN v2_fields_to_create' = fields_to_create(v2_unique_fields, v2_fields)
          /\ IF Len(v2_fields_to_create') > 0
             THEN pc' = "fields_create_batch" /\ UNCHANGED copied
             ELSE pc' = "v1.sources_get" /\ copied' = (copied \/ run = "first")
          /\ UNCHANGED <<remote, run, v1_user_fields, v1_user_fields_unique,
                         v1_fields_mapping, v1_sources, v2_sources, common_sources,
                         mappings_by_source_id, mi, v1_sources_by_id, idx>>
       \/ RemoteFailure("fields_get", <<>>)

\* line 64 inside a try/except that goes on to the mappings
CopyCreateBatchSwallowed ==
    /\ pc = "fields_create_batch"
    /\ \/ /\ calls' = Append(calls, Call("fields_create_batch", v2_fields_to_create, TRUE, <<>>))
          /\ v2_org_fields' = v2_org_fields \o v2_fields_to_create
          /\ pc' = "v1.sources_get"
          /\ copied' = (copied \/ run = "first")
          /\ UNCHANGED <<v1_org_fields, v1_org_sources, v2_org_sources,
                         v2_org_mappings, run, locals>>
       \/ /\ calls' = Append(calls, Call("fields_create_batch", v2_fields_to_create, FALSE, <<>>))
          /\ pc' = "v1.sources_get"
          /\ UNCHANGED <<remote, run, copied, locals>>

\* line 64; the batch is created as a whole
CopyCreateBatch ==
    /\ pc = "fields_create_batch"
    /\ \/ /\ calls' = Append(calls, Call("fields_create_batch", v2_fields_to_create, TRUE, <<>>))
          /\ v2_org_fields' = v2_org_fields \o v2_fields_to_create
          /\ pc' = "v1.sources_get"
          /\ copied' = (copied \/ run = "first")
          /\ UNCHANGED <<v1_org_fields, v1_org_sources, v2_org_sources,
                         v2_org_mappings, run, locals>>
       \/ RemoteFailure("fields_create_batch", v2_fields_to_create)

\* lines 138-141: line 140, then the first argument that is a remote call;
\* line 140 has run when the call raises
V1SourcesGet ==
    /\ pc = "v1.sources_get"
    /\ v1_fields_mapping' =
          Chain([i \in DOMAIN v1_user_fields_unique |-> v1_user_fields_unique[i][2]])
    /\ \/ /\ calls' = Append(calls, Call("v1.sources_get", <<>>, TRUE, v1_org_sources))
          /\ v1_sources' = v1_org_sources
          /\ pc' = "sources_get"
       \/ /\ calls' = Append(calls, Call("v1.sources_get", <<>>, FALSE, <<>>))
          /\ pc' = "failed"
          /\ UNCHANGED v1_sources
    /\ UNCHANGED <<remote, run, copied, v1_user_fields, v1_user_fields_unique,
                   v2_fields_to_create, v2_sources, common_sources,
                   mappings_by_source_id, mi, v1_sources_by_id, idx>>

\* line 141, the second remote call, and lines 102-106; with no common source
\* lines 107-108 issue no call
V2SourcesGet ==
    /\ pc = "sources_get"
    /\ \/ /\ calls' = Append(calls, Call("sources_get", <<>>, TRUE, v2_org_sources))
          /\ v2_sources' = v2_org_sources
          /\ common_sources' = v2_get_sources_by_name(v1_sources, v2_sources')
          /\ mappings_by_source_id' = <<>>
          /\ IF Len(common_sources') = 0
             THEN /\ v1_sources_by_id' = sources_by_id(v1_sources)
                  /\ mi' = 0
                  /\ idx' = 1
                  /\ pc' = "for field"
             ELSE /\ mi' = 1
                  /\ pc' = "mappings_get"
                  /\ UNCHANGED <<v1_sources_by_id, idx>>
          /\ UNCHANGED <<remote, run, copied, v1_user_fields, v1_user_fields_unique,
                         v2_fields_to_create, v1_fields_mapping, v1_sources>>
       \/ RemoteFailure("sources_get", <<>>)

\* lines 70-73: the mappings of the next common source; after the last, line 108
MappingsGet ==
    /\ pc = "mappings_get"
    /\ LET v2_id == common_sources[mi][2].v2_id
       IN \/ /\ calls' = Append(calls, Call("mappings_get", v2_id, TRUE, v2_org_mappings[v2_id]))
             /\ mappings_by_source_id' =
                   DictSet(mappings_by_source_id, v2_id,
                           rules_by_field_name(v2_org_mappings[v2_id]))
             /\ IF mi = Len(common_sources)
                THEN /\ v1_sources_by_id' = sources_by_id(v1_sources)
                     /\ idx' = 1
                     /\ pc' = "for field"
                     /\ UNCHANGED mi
                ELSE /\ mi' = mi + 1
                     /\ UNCHANGED <<pc, v1_sources_by_id, idx>>
             /\ UNCHANGED <<remote, run, copied, v1_user_fields, v1_user_fields_unique,
                            v2_fields_to_create, v1_fields_mapping, v1_sources,
                            v2_sources, common_sources>>
          \/ RemoteFailure("mappings_get", v2_id)

\* lines 93-100 with line 100 inside a try/except that goes on to the next field
v2_create_mapping_swallowed(field, mappings, source_id, source_name) ==
    IF new_mapping_exists(field, mappings, source_id)
    THEN /\ idx' = idx + 1
         /\ UNCHANGED <<remote, pc, run, calls, copied, v1_user_fields,
                        v1_user_fields_unique, v2_fields_to_create,
                        v1_fields_mapping, v1_sources, v2_sources, common_sources,
                        mappings_by_source_id, mi, v1_sources_by_id>>
    ELSE /\ \E ok \in BOOLEAN :
               /\ calls' = Append(calls, Call("mappings_common_add",
                                              <<source_id, FALSE, new_mapping(field)>>,
                                              ok, <<>>))
               /\ v2_org_mappings' =
                     IF ok
                     THEN [v2_org_mappings EXCEPT ![source_id] = Append(@, new_mapping(field))]
                     ELSE v2_org_mappings
         /\ idx' = idx + 1
         /\ UNCHANGED <<v1_org_fields, v1_org_sources, v2_org_fields,
                        v2_org_sources, pc, run, copied, v1_user_fields,
                        v1_user_fields_unique, v2_fields_to_create,
                        v1_fields_mapping, v1_sources, v2_sources, common_sources,
                        mappings_by_source_id, mi, v1_sources_by_id>>

\* lines 93-100
v2_create_mapping(field, mappings, source_id, source_name) ==
    IF new_mapping_exists(field, mappings, source_id)
    THEN /\ idx' = idx + 1
         /\ UNCHANGED <<remote, pc, run, calls, copied, v1_user_fields,
                        v1_user_fields_unique, v2_fields_to_create,
                        v1_fields_mapping, v1_sources, v2_sources, common_sources,
                        mappings_by_source_id, mi, v1_sources_by_id>>
    ELSE \/ /\ calls' = Append(calls, Call("mappings_common_add",
                                           <<source_id, FALSE, new_mapping(field)>>, TRUE, <<>>))
            /\ v2_org_mappings' =
                  [v2_org_mappings EXCEPT ![source_id] = Append(@, new_mapping(field))]
            /\ idx' = idx + 1
            /\ UNCHANGED <<v1_org_fields, v1_org_sources, v2_org_fields,
                           v2_org_sources, pc, run, copied, v1_user_fields,
                           v1_user_fields_unique, v2_fields_to_create,
                           v1_fields_mapping, v1_sources, v2_sources, common_sources,
                           mappings_by_source_id, mi, v1_sources_by_id>>
         \/ RemoteFailure("mappings_common_add", <<source_id, FALSE, new_mapping(field)>>)

\* lines 109-116: one iteration
ForField ==
    /\ pc = "for field"
    /\ idx <= Len(v1_fields_mapping)
    /\ LET field == v1_fields_mapping[idx]
       IN IF source_id_missing(field)
          THEN /\ pc' = "KeyError"
               /\ UNCHANGED <<remote, run, calls, copied, locals>>
          ELSE LET v2_source == v2_get_source_used_field(field, common_sources)
                   v2_source_id == v2_source.id
                   v2_source_name == v2_source.name
               IN IF v2_source_id = None
                  THEN /\ idx' = idx + 1
                       /\ UNCHANGED <<remote, pc, run, calls, copied, v1_user_fields,
                                      v1_user_fields_unique, v2_fields_to_create,
                                      v1_fields_mapping, v1_sources, v2_sources,
                                      common_sources, mappings_by_source_id, mi,
                                      v1_sources_by_id>>
                  ELSE v2_create_mapping(field,
                                         DictGet(mappings_by_source_id, v2_source_id),
                                         v2_source_id, v2_source_name)

\* line 142
AllMappingsCreated ==
    /\ pc = "for field"
    /\ idx > Len(v1_fields_mapping)
    /\ pc' = "done"
    /\ UNCHANGED <<remote, run, calls, copied, locals>>

Ended == pc \in {"done", "failed", "KeyError"}

\* the script is started again on the same two organizations
SecondRun ==
    /\ Ended
    /\ run = "first"
    /\ run' = "second"
    /\ pc' = "main"
    /\ calls' = <<>>
    /\ v1_user_fields' = <<>>
    /\ v1_user_fields_unique' = <<>>
    /\ v2_fields_to_create' = <<>>
    /\ v1_fields_mapping' = <<>>
    /\ v1_sources' = <<>>
    /\ v2_sources' = <<>>
    /\ common_sources' = <<>>
    /\ mappings_by_source_id' = <<>>
    /\ mi' = 0
    /\ v1_sources_by_id' = <<>>
    /\ idx' = 0
    /\ UNCHANGED <<remote, copied>>

Next ==
    \/ MainFieldsGet
    \/ CopyFieldsGet
    \/ CopyCreateBatch
    \/ V1SourcesGet
    \/ V2SourcesGet
    \/ MappingsGet
    \/ ForField
    \/ AllMappingsCreated
    \/ SecondRun

Spec == Init /\ [][Next]_vars

----------------------------------------------------------------------------
(* v1_get_unique_fields on its own: every list of user fields, every
   permutation of it *)

Permuted(list, p) == [i \in DOMAIN list |-> list[p[i]]]

InitDedup ==
    /\ v1_user_fields \in
          ListsUpTo(FieldsOf(FieldNames, Configs, {"CUSTOM"}, {<<"s">>}), MaxFields)
    /\ v1_org_fields = <<>>
    /\ v1_user_fields_unique = <<>>
    /\ pc = "main"
    /\ v1_org_sources = <<>>
    /\ v2_org_sources = <<>>
    /\ v2_org_fields = <<>>
    /\ v2_org_mappings = <<>>
    /\ run = "first"
    /\ calls = <<>>
    /\ copied = FALSE
    /\ v2_fields_to_create = <<>>
    /\ v1_fields_mapping = <<>>
    /\ v1_sources = <<>>
    /\ v2_sources = <<>>
    /\ common_sources = <<>>
    /\ mappings_by_source_id = <<>>
    /\ mi = 0
    /\ v1_sources_by_id = <<>>
    /\ idx = 0

\* line 136
Dedup ==
    /\ pc = "main"
    /\ v1_user_fields_unique' = v1_get_unique_fields(v1_user_fields)
    /\ pc' = "deduplicated"
    /\ UNCHANGED <<remote, run, calls, copied, v1_user_fields, v2_fields_to_create,
                   v1_fields_mapping, v1_sources, v2_sources, common_sources,
                   mappings_by_source_id, mi, v1_sources_by_id, idx>>

\* line 136 on the same fields in another order
DedupPermuted ==
    /\ pc = "deduplicated"
    /\ \E p \in Permutations(DOMAIN v1_user_fields) :
          /\ v1_user_fields' = Permuted(v1_user_fields, p)
          /\ v1_user_fields_unique' = v1_get_unique_fields(v1_user_fields')
    /\ UNCHANGED <<remote, pc, run, calls, copied, v2_fields_to_create,
                   v1_fields_mapping, v1_sources, v2_sources, common_sources,
                   mappings_by_source_id, mi, v1_sources_by_id, idx>>

NextDedup == Dedup \/ DedupPermuted

SpecDedup == InitDedup /\ [][NextDedup]_vars

----------------------------------------------------------------------------
(* What the claims speak of *)

CallsOf(op) == {i \in DOMAIN calls : calls[i].op = op}

ReturnedCallsOf(op) == {i \in CallsOf(op) : calls[i].ok}

\* the translated first member of every accepted group
Representatives ==
    {v1_to_v2(v1_user_fields_unique[i][2][1]) : i \in DOMAIN v1_user_fields_unique}

NamesOf(items) == {items[i].name : i \in DOMAIN items}

ConfigAttributes ==
    {"fieldType", "contentType", "fieldQueries", "freeTextQueries", "facet",
     "multivalueFacet", "sort", "displayField"}

\* the names that two fields of different configurations share
InconsistentNames(fields) ==
    {fields[i].name : i \in {i \in DOMAIN fields :
        \E j \in DOMAIN fields :
           /\ fields[j].name = fields[i].name
           /\ \E a \in ConfigAttributes : fields[j][a] # fields[i][a]}}

AcceptedNames == {v1_user_fields_unique[i][1] : i \in DOMAIN v1_user_fields_unique}

RejectedNames == NamesOf(v1_user_fields) \ AcceptedNames

\* the CloudV2 source id that lines 84-91 give for a field, None without one
ResolvedTarget(field) ==
    IF source_id_missing(field)
    THEN None
    ELSE v2_get_source_used_field(field, common_sources).id

InLoop == pc \in {"for field", "done", "KeyError"}

----------------------------------------------------------------------------
(* C1 *)

\* C1: in one run fields_create_batch is called at most once; it is called
\* if and only if a translated representative has a name that fields_get did
\* not return, and its batch is exactly those representatives: never empty,
\* never a field whose name the target has.
C1_BatchIsExactlyTheMissingFields ==
    /\ Cardinality(CallsOf("fields_create_batch")) <= 1
    /\ \A c \in CallsOf("fields_create_batch") :
          \E g \in ReturnedCallsOf("fields_get") :
             LET batch == calls[c].arg
                 present == NamesOf(calls[g].ret)
             IN /\ g < c
                /\ batch # <<>>
                /\ \A j \in DOMAIN batch :
                      batch[j].name \notin present /\ batch[j] \in Representatives
                /\ \A r \in Representatives :
                      r.name \notin present => \E j \in DOMAIN batch : batch[j] = r
                /\ \A j, k \in DOMAIN batch : batch[j] = batch[k] => j = k
    /\ \A g \in ReturnedCallsOf("fields_get") :
          pc # "fields_create_batch" =>
             ((\E r \in Representatives : r.name \notin NamesOf(calls[g].ret))
                 <=> CallsOf("fields_create_batch") # {})

\* a batch of one field was created while another representative was skipped
C1_Witness ==
    \E c \in ReturnedCallsOf("fields_create_batch") :
       \E g \in ReturnedCallsOf("fields_get") :
          /\ Len(calls[c].arg) = 1
          /\ \E r \in Representatives : r.name \in NamesOf(calls[g].ret)

----------------------------------------------------------------------------
(* C2 *)

\* C2: when copy_user_fields returned in the first run, the second run on the
\* same input and on the target as the first run left it calls
\* fields_create_batch not at all.
C2_SecondRunCreatesNoField ==
    (run = "second" /\ copied) => CallsOf("fields_create_batch") = {}

\* the second run is past copy_user_fields and found a field in the target
\* that only the first run can have created
C2_Witness ==
    /\ run = "second"
    /\ copied
    /\ pc = "v1.sources_get"
    /\ \E g \in ReturnedCallsOf("fields_get") :
          \E r \in Representatives :
             r.name = <<"R">> /\ r.name \in NamesOf(calls[g].ret)

----------------------------------------------------------------------------
(* C3 *)

\* C3: a name that two user fields of different configurations share is
\* rejected in full: v1_get_unique_fields returns no entry for it, no field of
\* that name is in a create batch, no mappings_common_add is issued for it;
\* every other name is accepted and the run goes on with it.
C3_InconsistentGroupRejectedInFull ==
    /\ AcceptedNames = NamesOf(v1_user_fields) \ InconsistentNames(v1_user_fields)
    /\ \A n \in InconsistentNames(v1_user_fields) :
          /\ \A k \in DOMAIN v1_fields_mapping : v1_fields_mapping[k].name # n
          /\ \A c \in CallsOf("fields_create_batch") : n \notin NamesOf(calls[c].arg)
          /\ \A a \in CallsOf("mappings_common_add") : calls[a].arg[3].field # n

\* a run with a rejected group ended after creating the field and the mapping
\* of another group
C3_Witness ==
    /\ pc = "done"
    /\ InconsistentNames(v1_user_fields) # {}
    /\ ReturnedCallsOf("fields_create_batch") # {}
    /\ ReturnedCallsOf("mappings_common_add") # {}

----------------------------------------------------------------------------
(* C4 *)

\* C4: the names v1_get_unique_fields accepts, and those it rejects, are the
\* same for a field list and for every permutation of it.
C4_AcceptedNamesOrderIndependent ==
    [][(pc = "deduplicated" /\ pc' = "deduplicated") =>
          (AcceptedNames' = AcceptedNames /\ RejectedNames' = RejectedNames)]_vars

\* a rejected group of three whose first two members agree, next to no other
C4_Witness ==
    /\ pc = "deduplicated"
    /\ Len(v1_user_fields) >= 3
    /\ v1_user_fields[1].name = v1_user_fields[3].name
    /\ v1_user_fields[1] = v1_user_fields[2]
    /\ v1_user_fields[1].sort # v1_user_fields[3].sort
    /\ v1_user_fields[1].name \in RejectedNames

----------------------------------------------------------------------------
(* C5 *)

\* C5: every mappings_common_add call follows the mappings_get of its target
\* source, and the rules that mappings_get returned hold no rule whose field
\* equals the field of the call without regard to case.
C5_PresentRuleNeverRecreated ==
    \A a \in CallsOf("mappings_common_add") :
       \E g \in ReturnedCallsOf("mappings_get") :
          /\ g < a
          /\ calls[g].arg = calls[a].arg[1]
          /\ \A i \in DOMAIN calls[g].ret :
                Lower(calls[g].ret[i].field) # Lower(calls[a].arg[3].field)

\* a run ended without a call for field "R" on a source that had a rule "r"
C5_Witness ==
    /\ pc = "done"
    /\ \E g \in ReturnedCallsOf("mappings_get") :
          /\ \E i \in DOMAIN calls[g].ret : calls[g].ret[i].field = <<"r">>
          /\ \E k \in DOMAIN v1_fields_mapping :
                /\ v1_fields_mapping[k].name = <<"R">>
                /\ ResolvedTarget(v1_fields_mapping[k]) = calls[g].arg
          /\ \A a \in CallsOf("mappings_common_add") : calls[a].arg[1] # calls[g].arg

----------------------------------------------------------------------------
(* C6 *)

\* the CloudV1 source that has the sourceId of the field
SourceOfField(field) ==
    CHOOSE s \in SeqRange(v1_org_sources) : s.id = field.sourceId

\* the CloudV2 sources with the name of s, without regard to case
Counterparts(s) ==
    {t \in SeqRange(v2_org_sources) : Lower(t.name) = Lower(s.name)}

\* C6: the iteration for a field issues mappings_common_add only to a CloudV2
\* source that has the name, without regard to case, of the CloudV1 source
\* with the field's sourceId; without such a CloudV2 source it issues no call
\* and goes on to the next field.
C6_MappingOnlyOnSameNamedSource ==
    [][(pc = "for field" /\ idx \in DOMAIN v1_fields_mapping) =>
          LET targets == Counterparts(SourceOfField(v1_fields_mapping[idx]))
          IN /\ calls' # calls =>
                   calls'[Len(calls')].arg[1] \in {t.id : t \in targets}
             /\ targets = {} =>
                   (calls' = calls /\ pc' = "for field" /\ idx' = idx + 1)]_vars

----------------------------------------------------------------------------
(* C7 *)

MappingCalls == CallsOf("mappings_get") \cup CallsOf("mappings_common_add")

\* C7: a mappings_get or mappings_common_add call is issued only after
\* fields_get returned and after the fields_create_batch call of the run, if
\* any, returned; after a fields_create_batch that failed there is none.
C7_FieldsBeforeMappings ==
    /\ \A m \in MappingCalls :
          /\ \E g \in ReturnedCallsOf("fields_get") : g < m
          /\ \A c \in CallsOf("fields_create_batch") : c < m /\ calls[c].ok
    /\ MappingCalls # {} => pc \notin {"main", "copy_user_fields", "fields_create_batch"}

\* a batch was created, then mappings were read and a mapping was added
C7_Witness ==
    \E c \in ReturnedCallsOf("fields_create_batch") :
       \E g \in ReturnedCallsOf("mappings_get") :
          \E a \in ReturnedCallsOf("mappings_common_add") : c < g /\ g < a

----------------------------------------------------------------------------
(* C8 *)

\* C8: a remote call that fails is the last call of its run and ends the run;
\* the batch and the rules that the run created before stay in the target.
C8_RemoteFailureEndsTheRun ==
    /\ \A i \in DOMAIN calls : ~calls[i].ok => (i = Len(calls) /\ pc = "failed")
    /\ pc = "failed" => (calls # <<>> /\ ~calls[Len(calls)].ok)
    /\ \A c \in ReturnedCallsOf("fields_create_batch") :
          \A j \in DOMAIN calls[c].arg : calls[c].arg[j] \in SeqRange(v2_org_fields)
    /\ \A a \in ReturnedCallsOf("mappings_common_add") :
          calls[a].arg[3] \in SeqRange(v2_org_mappings[calls[a].arg[1]])

\* mappings_common_add failed after a batch and a mapping had been created
C8_Witness ==
    /\ pc = "failed"
    /\ calls[Len(calls)].op = "mappings_common_add"
    /\ ReturnedCallsOf("fields_create_batch") # {}
    /\ ReturnedCallsOf("mappings_common_add") # {}

----------------------------------------------------------------------------
(* C9 *)

\* C9: for a field whose sourceId is the id of a CloudV1 source, line 87 finds
\* that source in v1_sources_by_id, whatever the case of the id, and raises
\* nothing.
C9_SourceIdLookupSucceeds ==
    (pc \in {"for field", "KeyError"} /\ idx \in DOMAIN v1_fields_mapping) =>
       LET field == v1_fields_mapping[idx]
       IN (\E s \in SeqRange(v1_sources) : s.id = field.sourceId) =>
             /\ pc # "KeyError"
             /\ ~source_id_missing(field)
             /\ DictGet(v1_sources_by_id, field.sourceId).id = field.sourceId

----------------------------------------------------------------------------
(* C10 *)

\* the rules that mappings_get returned for a CloudV2 source in this run
Fetched(target) ==
    UNION {SeqRange(calls[g].ret) : g \in {g \in ReturnedCallsOf("mappings_get") :
                                              calls[g].arg = target}}

\* C10: the index of present rules is not refreshed in a run: of the fields
\* handled so far that resolve to one target source and whose names are equal
\* without regard to case and absent from the rules fetched for that source,
\* each one got its own mappings_common_add call.
C10_IndexNotRefreshed ==
    InLoop =>
       \A t \in DictKeys(mappings_by_source_id) :
          \A n \in {Lower(name) : name \in FieldNames} :
             (\A r \in Fetched(t) : Lower(r.field) # n) =>
                Cardinality({a \in CallsOf("mappings_common_add") :
                                calls[a].arg[1] = t /\ Lower(calls[a].arg[3].field) = n})
                  = Cardinality({k \in 1..(idx - 1) :
                                   /\ ResolvedTarget(v1_fields_mapping[k]) = t
                                   /\ Lower(v1_fields_mapping[k].name) = n})

\* two calls went to one source for fields of the same lower-cased name
C10_Witness ==
    /\ pc = "done"
    /\ \E a, b \in ReturnedCallsOf("mappings_common_add") :
          /\ a < b
          /\ calls[a].arg[1] = calls[b].arg[1]
          /\ Lower(calls[a].arg[3].field) = Lower(calls[b].arg[3].field)

====
